---- MODULE Spec2Model ----
(***************************************************************************)
(* Model of blind_rt60.estimation.BlindRT60: construction, framing,        *)
(* init_states, the hybrid bisection / Newton solver loop of estimate(),   *)
(* and the percentile aggregation.                                         *)
(*                                                                         *)
(* Numbers.  The decay parameter a is held on a fixed-point grid:          *)
(* a = A / Scale for an integer A.  a_range is [ARangeLo, ARangeHi] in     *)
(* grid units; its width is a power of two large enough that every         *)
(* bisection midpoint of the modelled runs is a grid point.  The           *)
(* log-likelihood derivatives are computed exactly as rationals over the   *)
(* integers; EPS is treated as an infinitesimal: it only matters where the *)
(* denominator it guards is exactly zero.  A Newton update is rounded to   *)
(* the nearest grid point.                                                 *)
(***************************************************************************)
EXTENDS Integers, Sequences, FiniteSets, TLC

\* ------------------------------------------------------------------ bounds
MaxBisect == 2      \* largest bisected_itr explored
MaxItr == 3         \* largest max_itr explored
MaxBatch == 2       \* most frames a signal handed to estimate() is cut into
MaxCalls == 2       \* estimate() calls on one estimator instance
MaxSigLen == 7      \* longest signal in SpecFraming
MaxFrameLen == 4    \* longest frame in SpecFraming

\* ------------------------------------------------------ configuration space
Width == 2 * (2 ^ MaxBisect)
ARangeLo == Width \div 2
ARangeHi == ARangeLo + Width
Scale == 2 * Width

BisectedItrs == 0 .. MaxBisect
MaxItrs == 0 .. MaxItr
AInits == {ARangeLo, ARangeHi - 1}
MaxErrs == {<<1, 10>>, <<1, 4>>}
FrameCfgs == {<<1, 1>>, <<2, 1>>}
Samples == {0, 1, 2, 3}

NEWTON == "newton"
BISECTED == "bisected"
None == "None"
\* self.tau / self.rt60 before any call has set them
NoResult == [none |-> TRUE]

Percentile == 50
Sigma2Init == <<1, 2>>
TauUnit == 1000
RT60Milli == 6908

VARIABLES
    bisected_itr, max_itr, a_init, max_err, framelen, hop,
    x, x_frames, a, a_lower, a_upper, sigma2, n, framelen_fac, converged,
    taus, tau, rt60, itr, pc, err, calls, methods, population, wasConverged

cfgvars == <<bisected_itr, max_itr, a_init, max_err, framelen, hop>>
solver == <<a, a_lower, a_upper, sigma2, converged>>
vars == <<bisected_itr, max_itr, a_init, max_err, framelen, hop,
          x, x_frames, a, a_lower, a_upper, sigma2, n, framelen_fac, converged,
          taus, tau, rt60, itr, pc, err, calls, methods, population, wasConverged>>

\* ------------------------------------------------------------ arithmetic
RECURSIVE Pow(_, _)
Pow(b, e) == IF e = 0 THEN 1 ELSE b * Pow(b, e - 1)

RECURSIVE SumSeq(_)
SumSeq(s) == IF s = <<>> THEN 0 ELSE Head(s) + SumSeq(Tail(s))

Abs(v) == IF v < 0 THEN -v ELSE v

Sign(v) == IF v > 0 THEN 1 ELSE IF v < 0 THEN -1 ELSE 0

Min(u, v) == IF u <= v THEN u ELSE v

Max(u, v) == IF u >= v THEN u ELSE v

\* nearest integer to p / q, for q # 0
RoundDiv(p, q) ==
    IF q > 0 THEN (2 * p + q) \div (2 * q)
    ELSE (2 * (-p) + (-q)) \div (2 * (-q))

\* ---------------------------------------------------------------- framing
\* len(range(start, stop, step)) for step > 0
RangeLen(start, stop, step) ==
    IF start < stop THEN ((stop - 1 - start) \div step) + 1 ELSE 0

\* the Python slice sig[i : j] of a sequence, 0 <= i (an end past len is clamped)
Slice(sig, i, j) == SubSeq(sig, i + 1, Min(j, Len(sig)))

\* a plausible slip: the range stops at len(x) - framelen
FramesShortRange(sig, L, H) ==
    [k \in 1 .. RangeLen(0, Len(sig) - L, H) |->
        Slice(sig, (k - 1) * H, (k - 1) * H + L)]

\* x_frames = [x[i:i + framelen] for i in range(0, len(x) - framelen + 1, hop)]
Frames(sig, L, H) ==
    [k \in 1 .. RangeLen(0, Len(sig) - L + 1, H) |->
        Slice(sig, (k - 1) * H, (k - 1) * H + L)]

\* ----------------------------------------------------- likelihood model
Arange(L) == [i \in 1 .. L |-> i - 1]

FramelenFac(L) == (L * (L - 1)) \div 2

\* a ** (-2 n) * x ** 2 for a = A / Scale, every entry multiplied by the common
\* factor A ^ (2 (L - 1)) so that it is an integer
AXProd(A, xs) ==
    [i \in 1 .. Len(xs) |->
        xs[i] * xs[i] * Pow(Scale, 2 * (i - 1)) * Pow(A, 2 * (Len(xs) - i))]

\* likelihood_derivative at a = A / Scale for one frame xs.  With
\* sw = sum(a_x_prod), the result stands for
\*     dl_da   = Scale * n1 / (A * swp)
\*     d2l_da2 = d2 / (A * A * swp)
\*     sigma2  = sigma2[1] / sigma2[2]     (sigma2_range = (0, inf) clips nothing)
\* where swp = sw except that a frame with sw = 0 has 1 / (sigma2 + EPS) * 0 = 0,
\* which is the case n1 = -framelen_fac, d2 = framelen_fac * Scale^2, swp = 1.
LikelihoodDerivative(A, xs) ==
    LET L == Len(xs)
        w == AXProd(A, xs)
        sw == SumSeq(w)
        snw == SumSeq([i \in 1 .. L |-> (i - 1) * w[i]])
        s2 == SumSeq([i \in 1 .. L |-> (1 - 2 * (i - 1)) * (i - 1) * w[i]])
        fac == FramelenFac(L)
    IN  IF sw = 0
        THEN [n1 |-> -fac, d2 |-> fac * Scale * Scale, swp |-> 1,
              sigma2 |-> <<0, L * Pow(A, 2 * (L - 1))>>]
        ELSE [n1 |-> L * snw - fac * sw,
              d2 |-> fac * Scale * Scale * sw + L * A * A * s2,
              swp |-> sw,
              sigma2 |-> <<sw, L * Pow(A, 2 * (L - 1))>>]

\* np.abs(dl_da) <= max_err for dl_da of a frame at a = A / Scale
WithinTol(A, ld, tol) ==
    Scale * Abs(ld.n1) * tol[2] <= tol[1] * A * ld.swp

\* np.sign(dl_da)
SignDl(ld) == Sign(ld.n1)

\* a plausible slip: only the lower end is enforced
ClipLowerOnly(A) == Max(ARangeLo, A)

\* np.clip(a, a_min=a_range[0], a_max=a_range[1])
Clip(A) == Max(ARangeLo, Min(A, ARangeHi))

\* a - dl_da / (d2l_da2 + EPS), before clipping: a zero second derivative leaves
\* the division to EPS, which throws a off the grid on the side opposite to the
\* sign of dl_da (or leaves it where it is when dl_da = 0)
NewtonUpdate(A, ld) ==
    IF ld.d2 = 0
    THEN A - SignDl(ld) * (ARangeHi + Scale)
    ELSE RoundDiv(A * ld.d2 - Scale * Scale * A * ld.n1, ld.d2)

\* 0.5 * (a_lower + a_upper)
Middle(lo, hi) == (lo + hi) \div 2

\* ------------------------------------------------------------------- step
\* step(x_frames, NEWTON) on the solver fields s; dl is the returned dl_da
StepNewton(s, frames) ==
    LET B == Len(frames)
        ld == [f \in 1 .. B |-> LikelihoodDerivative(s.a[f], frames[f])]
        moved == [f \in 1 .. B |-> NewtonUpdate(s.a[f], ld[f])]
        clipped == [f \in 1 .. B |-> Clip(moved[f])]
        out == [f \in 1 .. B |-> LikelihoodDerivative(clipped[f], frames[f])]
    IN  [a |-> clipped, a_lower |-> s.a_lower, a_upper |-> s.a_upper,
         sigma2 |-> [f \in 1 .. B |-> out[f].sigma2], dl |-> out, raised |-> FALSE]

\* the number of True entries of a boolean array, np.sum(mask)
CountTrue(mask) == Cardinality({f \in 1 .. Len(mask) : mask[f]})

\* a plausible slip: any frame changing sign moves every frame's lower end
BracketLowerAnyChanged(lower, middle_a, changed_sign) ==
    IF CountTrue(changed_sign) = 0 THEN lower ELSE middle_a

\* self.a_lower after the three branches of the bisection update
BracketLower(lower, middle_a, changed_sign) ==
    IF CountTrue(changed_sign) = 0 THEN lower
    ELSE IF CountTrue([f \in 1 .. Len(changed_sign) |-> ~changed_sign[f]]) = 0
    THEN middle_a
    ELSE [f \in 1 .. Len(lower) |->
             IF changed_sign[f] THEN middle_a[f] ELSE lower[f]]

\* a plausible slip: the mixed branch assigns a_upper without its mask
BracketUpperUnmasked(upper, middle_a, changed_sign) ==
    IF CountTrue(changed_sign) = 0 THEN middle_a
    ELSE IF CountTrue([f \in 1 .. Len(changed_sign) |-> ~changed_sign[f]]) = 0
    THEN upper
    ELSE middle_a

\* self.a_upper after the three branches of the bisection update
BracketUpper(upper, middle_a, changed_sign) ==
    IF CountTrue(changed_sign) = 0 THEN middle_a
    ELSE IF CountTrue([f \in 1 .. Len(changed_sign) |-> ~changed_sign[f]]) = 0
    THEN upper
    ELSE [f \in 1 .. Len(upper) |->
             IF ~changed_sign[f] THEN middle_a[f] ELSE upper[f]]

\* step(x_frames, BISECTED)
StepBisected(s, frames) ==
    LET B == Len(frames)
        middle_a == [f \in 1 .. B |-> Middle(s.a_lower[f], s.a_upper[f])]
        up == [f \in 1 .. B |-> LikelihoodDerivative(s.a_upper[f], frames[f])]
        mid == [f \in 1 .. B |-> LikelihoodDerivative(middle_a[f], frames[f])]
        changed_sign == [f \in 1 .. B |-> SignDl(up[f]) # SignDl(mid[f])]
        clipped == [f \in 1 .. B |-> Clip(middle_a[f])]
        out == [f \in 1 .. B |-> LikelihoodDerivative(clipped[f], frames[f])]
    IN  [a |-> clipped,
         a_lower |-> BracketLower(s.a_lower, middle_a, changed_sign),
         a_upper |-> BracketUpper(s.a_upper, middle_a, changed_sign),
         sigma2 |-> [f \in 1 .. B |-> out[f].sigma2], dl |-> out, raised |-> FALSE]

\* a plausible slip: the phase boundary taken as itr <= bisected_itr
MethodAtInclusive(i, bis) == IF i <= bis THEN BISECTED ELSE NEWTON

\* the method estimate() hands to step() at iteration i
MethodAt(i, bis) == IF i < bis THEN BISECTED ELSE NEWTON

\* step() dispatch on the method string
Step(s, frames, method) ==
    IF method = NEWTON THEN StepNewton(s, frames)
    ELSE IF method = BISECTED THEN StepBisected(s, frames)
    ELSE [a |-> s.a, a_lower |-> s.a_lower, a_upper |-> s.a_upper,
          sigma2 |-> s.sigma2, dl |-> <<>>, raised |-> TRUE]

\* self.converged is the Python scalar False after init_states and a boolean
\* array, one entry per frame, once an iteration has run
ScalarFalse == [array |-> FALSE, v |-> <<>>]

\* a plausible slip: the mask is or-ed into the mask of the iteration before
ConvergedMaskLatched(st, tol) ==
    [array |-> TRUE,
     v |-> [f \in 1 .. Len(st.a) |->
              \/ WithinTol(st.a[f], st.dl[f], tol)
              \/ (converged.array /\ converged.v[f])]]

\* self.converged = np.abs(dl_da) <= self.max_err
ConvergedMask(st, tol) ==
    [array |-> TRUE,
     v |-> [f \in 1 .. Len(st.a) |-> WithinTol(st.a[f], st.dl[f], tol)]]

\* np.any(np.bitwise_not(self.converged))
AnyNotConverged(c) ==
    IF c.array THEN \E f \in 1 .. Len(c.v) : ~c.v[f] ELSE TRUE

\* the while condition of estimate()
LoopCond(i, bis, mx, c) == i < bis \/ (i < mx /\ AnyNotConverged(c))

\* a ** (-2 * self.n) * x_frames ** 2 broadcasts (B, L) against x_frames; an empty
\* batch is the 1-d array of shape (0,), which broadcasts only when L = 1
BroadcastFails(frames, L) == Len(frames) = 0 /\ L # 1

\* a plausible slip: the arrays of an earlier call are kept when they already
\* have the right size
InitStatesKeep(batch) ==
    IF pc \in {"done", "error"} /\ Len(a) = batch
    THEN [a |-> a, a_upper |-> a_upper, a_lower |-> a_lower,
          sigma2 |-> sigma2, converged |-> converged]
    ELSE [a |-> [f \in 1 .. batch |-> a_init],
          a_upper |-> [f \in 1 .. batch |-> ARangeHi],
          a_lower |-> [f \in 1 .. batch |-> ARangeLo],
          sigma2 |-> [f \in 1 .. batch |-> Sigma2Init],
          converged |-> ScalarFalse]

\* init_states(batch): the solver fields
InitStates(batch) ==
    [a |-> [f \in 1 .. batch |-> a_init],
     a_upper |-> [f \in 1 .. batch |-> ARangeHi],
     a_lower |-> [f \in 1 .. batch |-> ARangeLo],
     sigma2 |-> [f \in 1 .. batch |-> Sigma2Init],
     converged |-> ScalarFalse]

\* ------------------------------------------------------------ aggregation
\* -1 / np.log(a) / fs for a = A / Scale < 1, in units of 1 / (TauUnit * fs)
\* seconds, with log(a) taken as 2 (a - 1) / (a + 1)
TauOf(A) == (TauUnit * (Scale + A)) \div (2 * (Scale - A))

\* self.taus = -1 / np.log(self.a) / self.fs
\* self.taus[np.bitwise_not(self.converged)] = np.nan
\* (the scalar mask np.bitwise_not(False) = True selects every entry)
TausOf(av, c) ==
    [f \in 1 .. Len(av) |->
        IF c.array /\ c.v[f] THEN [nan |-> FALSE, v |-> TauOf(av[f]), frame |-> f]
        ELSE [nan |-> TRUE, v |-> 0, frame |-> f]]

RECURSIVE SelectMask(_, _, _)
SelectMask(t, c, f) ==
    IF f > Len(t) THEN <<>>
    ELSE IF c[f] THEN <<t[f]>> \o SelectMask(t, c, f + 1)
    ELSE SelectMask(t, c, f + 1)

\* a plausible slip: the percentile is taken over every frame's tau
PopulationAll(t, c) == t

\* self.taus[self.converged]: boolean-array indexing keeps the entries whose
\* mask is True, in order; the scalar False indexes nothing
Population(t, c) == IF c.array THEN SelectMask(t, c.v, 1) ELSE <<>>

RECURSIVE Insert(_, _)
Insert(v, s) ==
    IF s = <<>> THEN <<v>>
    ELSE IF v <= Head(s) THEN <<v>> \o s
    ELSE <<Head(s)>> \o Insert(v, Tail(s))

RECURSIVE Sorted(_)
Sorted(s) == IF s = <<>> THEN <<>> ELSE Insert(Head(s), Sorted(Tail(s)))

\* np.percentile(values, q): linear interpolation between the two order
\* statistics around position q / 100 * (m - 1).  For no values the result
\* depends on the numpy installed (setup.py pins no version): nan, which is
\* what this operator gives, or an IndexError, which is action AggregateRaises
PercentileOf(pop, q) ==
    IF pop = <<>> THEN [nan |-> TRUE, v |-> 0]
    ELSE LET srt == Sorted([i \in 1 .. Len(pop) |-> pop[i].v])
             pos == q * (Len(pop) - 1)
             lo == pos \div 100
             hi == IF pos % 100 = 0 THEN lo ELSE lo + 1
         IN  [nan |-> FALSE,
              v |-> srt[lo + 1] + ((pos % 100) * (srt[hi + 1] - srt[lo + 1])) \div 100]

\* self.rt60 = -3 * self.tau / np.log10(np.e ** -1)
RT60Of(t) ==
    IF t.nan THEN [nan |-> TRUE, v |-> 0]
    ELSE [nan |-> FALSE, v |-> (RT60Milli * t.v) \div 1000]

\* ---------------------------------------------------------------- actions
\* the signals estimate() is handed: every signal over Samples that the
\* configured framing cuts into at most MaxBatch frames
Signals ==
    UNION {[1 .. len -> Samples] :
               len \in 0 .. framelen + (MaxBatch - 1) * hop}

Fields == [a |-> a, a_lower |-> a_lower, a_upper |-> a_upper, sigma2 |-> sigma2]

\* BlindRT60(...): a configuration that passes sanity_check, solver fields None
Init ==
    /\ bisected_itr \in BisectedItrs
    /\ max_itr \in MaxItrs
    \* a_init is read by init_states only and the first bisection step
    \* overwrites a, so the starting points are varied where Newton starts
    /\ a_init \in IF bisected_itr = 0 THEN AInits ELSE {ARangeLo}
    /\ max_err \in MaxErrs
    /\ \E fc \in FrameCfgs : framelen = fc[1] /\ hop = fc[2]
    /\ x = <<>>
    /\ x_frames = <<>>
    /\ a = None /\ a_lower = None /\ a_upper = None /\ sigma2 = None
    /\ n = None /\ framelen_fac = None /\ converged = None
    /\ taus = None /\ tau = NoResult /\ rt60 = NoResult
    /\ itr = 0 /\ pc = "idle" /\ err = None /\ calls = 0
    /\ methods = <<>> /\ population = None /\ wasConverged = {}

\* sanity_check(): the assertions on the configuration
SanityCheck ==
    /\ 0 <= Percentile /\ Percentile <= 100
    /\ framelen > 0
    /\ 0 < hop /\ hop <= framelen
    /\ ARangeLo <= a_init /\ a_init < ARangeHi
    /\ Sigma2Init[1] > 0

\* estimate(x, fs) up to the loop: sanity_check, framing, init_states.  sig is
\* the signal at the working rate, as the resampler returns it.
Begin(sig) ==
    /\ SanityCheck
    /\ \E frames \in {Frames(sig, framelen, hop)} :
          \E s \in {InitStates(Len(frames))} :
              /\ x' = sig
              /\ x_frames' = frames
              /\ a' = s.a /\ a_upper' = s.a_upper /\ a_lower' = s.a_lower
              /\ sigma2' = s.sigma2 /\ converged' = s.converged
    /\ n' = Arange(framelen)
    /\ framelen_fac' = FramelenFac(framelen)
    /\ taus' = None
    /\ itr' = 0
    /\ pc' = "loop"
    /\ err' = None
    /\ calls' = calls + 1
    /\ methods' = <<>>
    /\ population' = None
    /\ wasConverged' = {}
    /\ UNCHANGED <<cfgvars, tau, rt60>>

\* the first estimate() call on a new estimator
Estimate(sig) == pc = "idle" /\ Begin(sig)

\* a further estimate() call on an estimator whose earlier call has ended
EstimateAgain(sig) ==
    /\ pc \in {"done", "error"}
    /\ calls < MaxCalls
    /\ Begin(sig)

\* one pass through the body of the while loop
Iterate ==
    /\ pc = "loop"
    /\ LoopCond(itr, bisected_itr, max_itr, converged)
    /\ ~BroadcastFails(x_frames, framelen)
    /\ \E method \in {MethodAt(itr, bisected_itr)} :
          \E st \in {Step(Fields, x_frames, method)} :
              /\ methods' = Append(methods, method)
              /\ IF st.raised
                 THEN /\ pc' = "error"
                      /\ err' = "ValueError: method"
                      /\ UNCHANGED <<solver, itr, wasConverged>>
                 ELSE \E mask \in {ConvergedMask(st, max_err)} :
                      /\ a' = st.a /\ a_lower' = st.a_lower
                      /\ a_upper' = st.a_upper
                      /\ sigma2' = st.sigma2
                      /\ converged' = mask
                      /\ itr' = itr + 1
                      /\ wasConverged' =
                             wasConverged \cup
                                 {f \in 1 .. Len(mask.v) : mask.v[f]}
                      /\ UNCHANGED <<pc, err>>
    /\ UNCHANGED <<cfgvars, x, x_frames, n, framelen_fac, taus, tau, rt60,
                   calls, population>>

IterateBisected == MethodAt(itr, bisected_itr) = BISECTED /\ Iterate

IterateNewton == MethodAt(itr, bisected_itr) # BISECTED /\ Iterate

\* the first likelihood_derivative of step() on an empty batch with
\* framelen > 1: numpy cannot broadcast (0, framelen) against (0,)
StepRaises ==
    /\ pc = "loop"
    /\ LoopCond(itr, bisected_itr, max_itr, converged)
    /\ BroadcastFails(x_frames, framelen)
    /\ methods' = Append(methods, MethodAt(itr, bisected_itr))
    /\ pc' = "error"
    /\ err' = "ValueError: broadcast"
    /\ UNCHANGED <<cfgvars, x, x_frames, solver, n, framelen_fac, taus, tau,
                   rt60, itr, calls, population, wasConverged>>

\* estimate() after the loop: taus, the percentile of the converged taus, rt60
Aggregate ==
    /\ pc = "loop"
    /\ ~LoopCond(itr, bisected_itr, max_itr, converged)
    /\ \E t \in {TausOf(a, converged)} :
          \E pop \in {Population(t, converged)} :
              \E agg \in {PercentileOf(pop, Percentile)} :
                  /\ taus' = t
                  /\ population' = pop
                  /\ tau' = agg
                  /\ rt60' = RT60Of(agg)
    /\ pc' = "done"
    /\ UNCHANGED <<cfgvars, x, x_frames, solver, n, framelen_fac, itr, err,
                   calls, methods, wasConverged>>

\* estimate() after the loop where np.percentile raises on the empty array
\* taus[converged]: self.taus is assigned, self.tau and self.rt60 are not
AggregateRaises ==
    /\ pc = "loop"
    /\ ~LoopCond(itr, bisected_itr, max_itr, converged)
    /\ \E t \in {TausOf(a, converged)} :
          /\ Population(t, converged) = <<>>
          /\ taus' = t
          /\ population' = <<>>
    /\ pc' = "error"
    /\ err' = "IndexError: percentile"
    /\ UNCHANGED <<cfgvars, x, x_frames, solver, n, framelen_fac, tau, rt60,
                   itr, calls, methods, wasConverged>>

Next ==
    \/ \E sig \in Signals : Estimate(sig)
    \/ IterateBisected
    \/ IterateNewton
    \/ StepRaises
    \/ Aggregate
    \/ AggregateRaises

Spec == Init /\ [][Next]_vars

\* ------------------------------------------- one estimator, several calls
InitReuse ==
    /\ Init
    /\ bisected_itr = 1
    /\ max_itr = MaxItr
    /\ a_init = ARangeLo
    /\ max_err = <<1, 4>>
    /\ framelen = 2 /\ hop = 1

NextReuse ==
    \/ Next
    \/ \E sig \in Signals : EstimateAgain(sig)

SpecReuse == InitReuse /\ [][NextReuse]_vars

\* --------------------------------------------------------- framing alone
\* signals whose sample at index i is i + 1, so that a frame shows where it
\* was cut from
Ramp(len) == [i \in 1 .. len |-> i]

InitFraming ==
    /\ bisected_itr = 0 /\ max_itr = 0
    /\ a_init = ARangeLo
    /\ max_err = <<1, 10>>
    /\ framelen \in 1 .. MaxFrameLen
    /\ hop \in 1 .. framelen
    /\ x \in {Ramp(len) : len \in 0 .. MaxSigLen}
    /\ x_frames = <<>>
    /\ a = None /\ a_lower = None /\ a_upper = None /\ sigma2 = None
    /\ n = None /\ framelen_fac = None /\ converged = None
    /\ taus = None /\ tau = NoResult /\ rt60 = NoResult
    /\ itr = 0 /\ pc = "framing" /\ err = None /\ calls = 0
    /\ methods = <<>> /\ population = None /\ wasConverged = {}

\* the framing statement of estimate() on its own
FrameOnly ==
    /\ pc = "framing"
    /\ SanityCheck
    /\ x_frames' = Frames(x, framelen, hop)
    /\ pc' = "framed"
    /\ UNCHANGED <<cfgvars, x, solver, n, framelen_fac, taus, tau, rt60, itr,
                   err, calls, methods, population, wasConverged>>

NextFraming == FrameOnly

SpecFraming == InitFraming /\ [][NextFraming]_vars

\* ------------------------------------------------- the loop as a function
\* the while loop of estimate() run to its exit from fields s, mask c and
\* iteration count i on the batch frames
RECURSIVE SolveLoop(_, _, _, _)
SolveLoop(s, c, i, frames) ==
    IF LoopCond(i, bisected_itr, max_itr, c) /\ ~BroadcastFails(frames, framelen)
    THEN CHOOSE r \in
             {SolveLoop([a |-> st.a, a_lower |-> st.a_lower,
                         a_upper |-> st.a_upper, sigma2 |-> st.sigma2],
                        ConvergedMask(st, max_err), i + 1, frames) :
                  st \in {Step(s, frames, MethodAt(i, bisected_itr))}} : TRUE
    ELSE [a |-> s.a, a_lower |-> s.a_lower, a_upper |-> s.a_upper,
          sigma2 |-> s.sigma2, converged |-> c, itr |-> i]

\* the body of the while loop applied k - i more times, whatever the mask
RECURSIVE IterateTo(_, _, _, _, _)
IterateTo(s, c, i, k, frames) ==
    IF i < k
    THEN CHOOSE r \in
             {IterateTo([a |-> st.a, a_lower |-> st.a_lower,
                         a_upper |-> st.a_upper, sigma2 |-> st.sigma2],
                        ConvergedMask(st, max_err), i + 1, k, frames) :
                  st \in {Step(s, frames, MethodAt(i, bisected_itr))}} : TRUE
    ELSE [a |-> s.a, a_lower |-> s.a_lower, a_upper |-> s.a_upper,
          sigma2 |-> s.sigma2, converged |-> c, itr |-> i]

\* ================================================================ claims
InCall == pc \in {"loop", "done", "error"}

\* the call has left the while loop: it is past the loop, whether the
\* aggregation returned or np.percentile raised
LeftLoop == pc = "done" \/ (pc = "error" /\ err = "IndexError: percentile")

Batch == 1 .. Len(x_frames)

\* the ConvergenceMask entry of frame f
MaskOf(f) == converged.array /\ converged.v[f]

\* the values init_states documents for a batch of B frames
FreshFields(B) ==
    [a |-> [f \in 1 .. B |-> a_init],
     a_lower |-> [f \in 1 .. B |-> ARangeLo],
     a_upper |-> [f \in 1 .. B |-> ARangeHi],
     sigma2 |-> [f \in 1 .. B |-> Sigma2Init]]

\* ---- C1
\* C1 (as claimed): the number of iterations the solver loop has performed
\* never exceeds max_itr, whatever the order of bisected_itr and max_itr.
C1_IterationsWithinMaxItr == InCall => itr <= max_itr

\* ---- C2
\* C2 (as claimed): after init_states and at the end of every step() every
\* frame's a lies in the half-open range a_range[0] <= a < a_range[1].
C2_HalfOpenRange ==
    InCall => \A f \in 1 .. Len(a) : ARangeLo <= a[f] /\ a[f] < ARangeHi

\* C2 (amended): after init_states and at the end of every step() every frame's
\* a lies in the closed range a_range[0] <= a <= a_range[1]; right after
\* init_states and at the end of every bisection step it is below a_range[1].
C2_ClosedRange ==
    InCall =>
        \A f \in 1 .. Len(a) :
            /\ ARangeLo <= a[f] /\ a[f] <= ARangeHi
            /\ itr <= bisected_itr => a[f] < ARangeHi

\* C2 witness: a Newton step has left a frame at the upper end of a_range.
C2_Witness ==
    /\ pc = "loop" /\ itr > bisected_itr
    /\ \E f \in 1 .. Len(a) : a[f] = ARangeHi

\* ---- C3
\* C3: the population handed to the percentile holds exactly one entry per
\* frame whose ConvergenceMask is true at loop exit, that entry is the frame's
\* tau, no other frame has an entry, and its size is at most the batch size;
\* with zero iterations it is empty.
C3_PopulationIsConvergedTaus ==
    LeftLoop =>
        /\ Len(population) = Cardinality({f \in Batch : MaskOf(f)})
        /\ Len(population) <= Len(x_frames)
        /\ \A i \in 1 .. Len(population) :
              /\ population[i].frame \in Batch
              /\ MaskOf(population[i].frame)
              /\ ~population[i].nan
              /\ population[i].v = TauOf(a[population[i].frame])
        /\ \A i, j \in 1 .. Len(population) :
              i < j => population[i].frame < population[j].frame
        /\ itr = 0 => population = <<>>

\* C3 witness: aggregation of a batch with converged and unconverged frames.
C3_Witness ==
    /\ pc = "done"
    /\ population # <<>>
    /\ Len(population) < Len(x_frames)

\* ---- C4
\* C4 (as claimed): a call that reaches aggregation with no converged frame
\* does not end by returning an RT60: it ends in an explicit error.
C4_EmptyPopulationIsError ==
    ~(pc = "done" /\ \A f \in Batch : ~MaskOf(f))

\* ---- C5
\* C5: at the start of the solver loop of every call, the first or a later one
\* on the same estimator, every field the loop reads has the value init_states
\* gives it, and the RT60 a call returns is the one a fresh solve of its signal
\* under the configuration returns.
C5_FreshStateEachCall ==
    /\ (pc = "loop" /\ itr = 0) =>
          /\ a = FreshFields(Len(x_frames)).a
          /\ a_lower = FreshFields(Len(x_frames)).a_lower
          /\ a_upper = FreshFields(Len(x_frames)).a_upper
          /\ sigma2 = FreshFields(Len(x_frames)).sigma2
          /\ converged = ScalarFalse
          /\ n = Arange(framelen)
          /\ framelen_fac = FramelenFac(framelen)
    /\ pc = "done" =>
          LET fin == SolveLoop(FreshFields(Len(x_frames)), ScalarFalse, 0, x_frames)
              pop == Population(TausOf(fin.a, fin.converged), fin.converged)
          IN  rt60 = RT60Of(PercentileOf(pop, Percentile))

\* C5 witness: a second call stands at the start of its loop after a first call
\* that iterated and returned a number.
C5_Witness ==
    /\ calls = 2 /\ pc = "loop" /\ itr = 0
    /\ rt60 # NoResult /\ ~rt60.nan
    /\ Len(x_frames) > 0

\* ---- C6
\* C6 (as claimed): for every signal length N >= 0 the framing produces exactly
\* 1 + floor((N - L) / H) frames.
C6_FrameCountFormula ==
    pc = "framed" => Len(x_frames) = 1 + ((Len(x) - framelen) \div hop)

\* C6 (amended): the framing produces max(0, 1 + floor((N - L) / H)) frames
\* (none when N < L); frame k is samples [k H, k H + L) of the signal, has
\* exactly L samples and ends inside the signal.
C6_Framing ==
    pc = "framed" =>
        /\ Len(x_frames) = Max(0, 1 + ((Len(x) - framelen) \div hop))
        /\ \A k \in 1 .. Len(x_frames) :
              /\ Len(x_frames[k]) = framelen
              /\ (k - 1) * hop + framelen <= Len(x)
              /\ \A j \in 1 .. framelen : x_frames[k][j] = x[(k - 1) * hop + j]
        /\ Len(x) - (Len(x_frames) * hop) < framelen

\* C6 witness: several overlapping frames were cut and a tail shorter than a
\* frame was dropped.
C6_Witness ==
    /\ pc = "framed"
    /\ Len(x_frames) >= 2
    /\ hop < framelen
    /\ (Len(x_frames) - 1) * hop + framelen < Len(x)

\* ---- C7
\* C7 (as claimed): a frame whose mask entry was true at the end of some
\* iteration of the call has it true at the end of every later iteration and
\* is in the aggregation population.
C7_MaskStaysTrue ==
    (pc \in {"loop", "done"} /\ itr > 0) =>
        /\ \A f \in wasConverged : MaskOf(f)
        /\ pc = "done" =>
              \A f \in wasConverged :
                  \E i \in 1 .. Len(population) : population[i].frame = f

\* C7 (amended): at the end of every iteration a frame's mask entry is true
\* exactly when |dl/da| at the a that iteration left is at most max_err; the
\* entry is recomputed each iteration and may turn false again, and the
\* aggregation population holds exactly the frames that meet the tolerance at
\* the a of the last iteration.
C7_MaskIsCurrent ==
    (pc \in {"loop", "done"} /\ itr > 0) =>
        /\ \A f \in Batch :
              MaskOf(f) <=>
                  WithinTol(a[f], LikelihoodDerivative(a[f], x_frames[f]), max_err)
        /\ pc = "done" =>
              \A f \in Batch :
                  (\E i \in 1 .. Len(population) : population[i].frame = f) <=>
                      WithinTol(a[f], LikelihoodDerivative(a[f], x_frames[f]),
                                max_err)

\* C7 witness: a frame that met the tolerance at an earlier iteration is out of
\* the final mask and out of the population.
C7_Witness ==
    /\ pc = "done"
    /\ \E f \in wasConverged : ~MaskOf(f)

\* ---- C8
\* the state half of C8: during the bisection phase every frame has
\* a_lower <= a <= a_upper
Bracketed ==
    (pc = "loop" /\ itr <= bisected_itr) =>
        \A f \in Batch : a_lower[f] <= a[f] /\ a[f] <= a_upper[f]

\* the step half of C8: a bisection step sets exactly one of a_lower, a_upper
\* of each frame to the midpoint, leaves the other, and halves the width
Halves ==
    (pc = "loop" /\ pc' = "loop" /\ itr' = itr + 1 /\ itr < bisected_itr) =>
        \A f \in Batch :
            LET m == (a_lower[f] + a_upper[f]) \div 2
            IN  /\ \/ a_lower'[f] = m /\ a_upper'[f] = a_upper[f]
                   \/ a_upper'[f] = m /\ a_lower'[f] = a_lower[f]
                /\ a'[f] = m
                /\ 2 * (a_upper'[f] - a_lower'[f]) = a_upper[f] - a_lower[f]
                /\ a_lower'[f] < a_upper'[f]

\* C8: a_lower <= a <= a_upper holds for every frame right after init_states
\* and at the end of every bisection step, in each of the three update
\* branches, and every bisection step moves exactly one end of each frame's
\* bracket to the midpoint, halving its width.
C8_BracketHalves == []Bracketed /\ [][Halves]_vars

\* C8 witness: a bisection step took the mixed branch: one frame moved its
\* lower end, another its upper end.
C8_Witness ==
    /\ pc = "loop" /\ itr = 1 /\ bisected_itr >= 1
    /\ \E f, g \in Batch : a_lower[f] # ARangeLo /\ a_upper[g] # ARangeHi

\* ---- C9
\* every frame of the batch has its mask entry true
AllFramesConverged == \A f \in Batch : MaskOf(f)

\* the exit condition as claimed, at iteration count k
ExitClaimed(k) ==
    k >= bisected_itr /\ (k >= max_itr \/ AllFramesConverged)

\* the exit condition of the code: before the first iteration the mask is the
\* scalar False, which counts as unconverged even for a batch of no frames
ExitAmended(k) ==
    k >= bisected_itr /\ (k >= max_itr \/ (k >= 1 /\ AllFramesConverged))

\* iteration i (0-based) was handed BISECTED exactly when i < bisected_itr
PhaseOrder ==
    /\ \A i \in 1 .. Len(methods) :
          methods[i] = IF i - 1 < bisected_itr THEN BISECTED ELSE NEWTON
    /\ \A i, j \in 1 .. Len(methods) :
          (i < j /\ methods[i] = NEWTON) => methods[j] = NEWTON
    /\ err # "ValueError: method"

Alone(f) ==
    SolveLoop(FreshFields(1), ScalarFalse, 0, <<x_frames[f]>>)

\* frame f alone, stepped as many times as the call's loop has run
AloneFor(f, k) ==
    IterateTo(FreshFields(1), ScalarFalse, 0, k, <<x_frames[f]>>)

\* frame f of the call has the a, bracket and mask entry of the one-frame run r
SameAs(f, r) ==
    /\ a[f] = r.a[1]
    /\ a_lower[f] = r.a_lower[1]
    /\ a_upper[f] = r.a_upper[1]
    /\ MaskOf(f) = (r.converged.array /\ r.converged.v[1])

\* C10 (as claimed): a frame's final a, bracket and mask entry depend on its
\* own samples only: they are those of the batch that holds the frame alone.
C10_FrameAlone ==
    pc = "done" => \A f \in Batch : \E r \in {Alone(f)} : SameAs(f, r)

\* C10 (amended): a frame's a, bracket and mask entry after k iterations depend
\* on its own samples and on k only: they are those of the frame alone after
\* the same k iterations; the final k is set by the whole batch.
C10_FrameAloneSameCount ==
    (pc \in {"loop", "done"} /\ itr > 0) =>
        \A f \in Batch : \E r \in {AloneFor(f, itr)} : SameAs(f, r)

\* C10 witness: a frame that converges when alone ends with another a,
\* because another frame kept the loop running.
C10_Witness ==
    /\ pc = "done"
    /\ \E f \in Batch :
          /\ Alone(f).converged.array /\ Alone(f).converged.v[1]
          /\ itr > Alone(f).itr
          /\ a[f] # Alone(f).a[1]


====
